---- MODULE Spec2Model ----
(***************************************************************************)
(* Model of src/App.tsx: the App component's state (status, error,         *)
(* zipBlobUrl, pngFile), handleFileSelect, handleConvert, loadImage,       *)
(* generatePngBlob and generateIcoBlob.                                    *)
(*                                                                         *)
(* Every action is one JavaScript task: an event handler or a browser      *)
(* callback together with all the promise continuations (microtasks) that  *)
(* run before the next task starts.                                        *)
(*                                                                         *)
(* Collaborators (FileReader, Image, canvas, fetch, JSZip) are the         *)
(* environment: each of their completions is an action with a              *)
(* nondeterministic outcome.  blob.arrayBuffer() of an encoded PNG is      *)
(* folded into the toBlob completion of the same canvas.  Completions      *)
(* still outstanding when handleFileSelect is called again belong to a run *)
(* whose Promise.all has already settled: no continuation of theirs        *)
(* reaches the component state, and they are dropped at that call.  In the *)
(* same way the per-size completions still outstanding when the promise of *)
(* generateIcoBlob is rejected are dropped: the inner Promise.all has      *)
(* settled and nothing reads their results.                                *)
(***************************************************************************)
EXTENDS Integers, Sequences, FiniteSets, TLC

----------------------------------------------------------------------------
(* Bounds of the model *)

\* the pixel contents of source images are numbered 0..MaxContent
MaxContent == 1
\* the encoder stand-in produces between 1 and MaxBlobLen bytes
MaxBlobLen == 3
\* at most MaxCtxFail canvases of a run get no 2d context
MaxCtxFail == 1

\* widths and heights of the source images
Dims == {15, 16, 48, 256}

----------------------------------------------------------------------------
(* Program constants *)

NULL == "null"
PNG == "image/png"
FileTypes == {PNG, "image/jpeg"}

standardSizes == <<256, 128, 64, 48, 32, 16>>
headerSize == 6
PngSizes == {192, 512}

ErrInvalidType == "Invalid file type. Please upload a PNG file."
ErrReadData == "Failed to read file data."
ErrReadFile == "Failed to read the file."
ErrLoadImage == "Failed to load image. The file might be corrupted."
ErrNoContext == "Could not get canvas context"
ErrTooSmall == "Image too small. Please use an image that is at least 16x16 pixels."
ErrNoSizes == "Could not determine appropriate icon sizes for the given image."
ErrManifestNotOk == "Failed to fetch manifest.json: <statusText>"
ErrUnknown == "An unknown error occurred during conversion."
\* messages of errors thrown by the collaborators
ErrFetchRejected == "TypeError: Failed to fetch"
ErrManifestBody == "TypeError: body stream error"
ErrZip == "JSZip: generateAsync failed"

ErrBlob(size) ==
    CASE size = 256 -> "Failed to create blob for size 256x256"
      [] size = 128 -> "Failed to create blob for size 128x128"
      [] size = 64  -> "Failed to create blob for size 64x64"
      [] size = 48  -> "Failed to create blob for size 48x48"
      [] size = 32  -> "Failed to create blob for size 32x32"
      [] size = 16  -> "Failed to create blob for size 16x16"
      [] size = 192 -> "Failed to create blob for size 192x192"
      [] size = 512 -> "Failed to create blob for size 512x512"

Range(s) == {s[i] : i \in 1..Len(s)}
IcoSizes == Range(standardSizes)
Canvases == IcoSizes \cup PngSizes

NoFile == [type |-> "none", w |-> 0, h |-> 0, content |-> 0]
PngFiles == [type : {PNG}, w : Dims, h : Dims, content : 0..MaxContent]
OtherFiles == [type : FileTypes \ {PNG}, w : {16}, h : {16}, content : {0}]
Files == PngFiles \cup OtherFiles

----------------------------------------------------------------------------
(* DataView writes (little-endian) on a buffer modelled as a sequence of   *)
(* bytes; byte offset off is position off + 1                             *)

ArrayBuffer(n) == [i \in 1..n |-> 0]

SetBytes(buf, off, bytes) ==
    SubSeq(buf, 1, off) \o bytes \o SubSeq(buf, off + Len(bytes) + 1, Len(buf))

setUint8(buf, off, v) == SetBytes(buf, off, <<v % 256>>)

setUint16(buf, off, v) ==
    SetBytes(buf, off, <<v % 256, (v \div 256) % 256>>)

setUint32(buf, off, v) ==
    SetBytes(buf, off, <<v % 256, (v \div 256) % 256,
                         (v \div 65536) % 256, (v \div 16777216) % 256>>)

----------------------------------------------------------------------------
(* canvas.toBlob + blob.arrayBuffer(): the encoder is a deterministic      *)
(* function of the image and the size; its bytes are opaque to the program *)

EncodedPng(content, size) ==
    [i \in 1..(1 + ((content + (size \div 16)) % MaxBlobLen)) |->
        (size + 3 * content + i) % 256]

----------------------------------------------------------------------------
(* generateIcoBlob *)

\* mutant: the image is refused only when both dimensions are too small
TooSmallBoth(w, h) == w < 16 /\ h < 16

\* line 196
TooSmall(w, h) == w < 16 \/ h < 16

\* mutant: strict comparison in the filter
SelectSizesStrict(w, h) ==
    SelectSeq(standardSizes, LAMBDA s : s < w /\ s < h)

\* lines 200-201
SelectSizes(w, h) ==
    SelectSeq(standardSizes, LAMBDA s : s <= w /\ s <= h)

directorySize(n) == 16 * n

RECURSIVE SumLen(_, _)
SumLen(entries, i) ==
    IF i > Len(entries) THEN 0
    ELSE Len(entries[i].buffer) + SumLen(entries, i + 1)

totalSize(entries) ==
    headerSize + directorySize(Len(entries)) + SumLen(entries, 1)

WriteHeader(buf, entries) ==
    setUint16(setUint16(setUint16(buf, 0, 0), 2, 1), 4, Len(entries))

displaySize(size) == IF size = 256 THEN 0 ELSE size

WriteEntry(buf, entry, entryOffset, fileOffset) ==
    LET b0 == setUint8(buf, entryOffset, displaySize(entry.size))
        b1 == setUint8(b0, entryOffset + 1, displaySize(entry.size))
        b2 == setUint8(b1, entryOffset + 2, 0)
        b3 == setUint8(b2, entryOffset + 3, 0)
        b4 == setUint16(b3, entryOffset + 4, 0)
        b6 == setUint16(b4, entryOffset + 6, 0)
        b8 == setUint32(b6, entryOffset + 8, Len(entry.buffer))
    IN  setUint32(b8, entryOffset + 12, fileOffset)

\* mutant: the file offset advanced like the directory offset
NextFileOffsetDir(fileOffset, entry) == fileOffset + 16

\* line 245
NextFileOffset(fileOffset, entry) == fileOffset + Len(entry.buffer)

RECURSIVE WriteDirectory(_, _, _, _, _)
WriteDirectory(buf, entries, i, entryOffset, fileOffset) ==
    IF i > Len(entries) THEN buf
    ELSE WriteDirectory(WriteEntry(buf, entries[i], entryOffset, fileOffset),
                        entries, i + 1, entryOffset + 16,
                        NextFileOffset(fileOffset, entries[i]))

RECURSIVE CopyData(_, _, _, _)
CopyData(buf, entries, i, dataOffset) ==
    IF i > Len(entries) THEN buf
    ELSE CopyData(SetBytes(buf, dataOffset, entries[i].buffer),
                  entries, i + 1, dataOffset + Len(entries[i].buffer))

FirstDataOffset(entries) == headerSize + directorySize(Len(entries))

\* lines 221-257: the container built from the resolved imageEntries
IcoFile(entries) ==
    LET finalBuffer == ArrayBuffer(totalSize(entries))
        withHeader == WriteHeader(finalBuffer, entries)
        withDir == WriteDirectory(withHeader, entries, 1, headerSize,
                                  FirstDataOffset(entries))
    IN  CopyData(withDir, entries, 1, FirstDataOffset(entries))

\* mutant: the entries in ascending order of size
imageEntriesReversed(sizes, bufs) ==
    [i \in 1..Len(sizes) |->
        [size |-> sizes[Len(sizes) + 1 - i],
         buffer |-> bufs[sizes[Len(sizes) + 1 - i]]]]

\* line 219, Promise.all(pngPromises): the results in the order of sizes,
\* whatever the order in which the promises were fulfilled
imageEntries(sizes, bufs) ==
    [i \in 1..Len(sizes) |-> [size |-> sizes[i], buffer |-> bufs[sizes[i]]]]

----------------------------------------------------------------------------
VARIABLES
    status,      \* 'idle' | 'converting' | 'success' | 'error'
    error,       \* the error message or NULL
    zipBlobUrl,  \* the object URL of the archive or NULL
    pngFile,     \* the selected file or NoFile
    pc,          \* where handleConvert is suspended
    img,         \* the decoded image of the run
    icoSt,       \* state of the promise of generateIcoBlob(img)
    icoErr,      \* its rejection reason
    enSt,        \* per size: state of the promise in pngPromises
    enBuf,       \* per size: the encoded bytes once resolved
    png,         \* state of generatePngBlob(img, 192) and (img, 512)
    mf,          \* state of fetch('manifest.json') and of the response
    zip,         \* state of zip.generateAsync
    resampled,   \* sizes for which drawImage was called in this run
    lastType,    \* history: type of the last file given to handleFileSelect
    firstFail,   \* history: error of the first production step that failed
    firstReject  \* history: reason of the first rejected production promise

vars == <<status, error, zipBlobUrl, pngFile, pc, img, icoSt, icoErr,
          enSt, enBuf, png, mf, zip, resampled, lastType, firstFail,
          firstReject>>

compVars == <<status, error, zipBlobUrl, pngFile>>
stepVars == <<img, icoSt, icoErr, enSt, enBuf, png, mf, zip, resampled>>
histVars == <<lastType, firstFail, firstReject>>

NoImage == [w |-> 0, h |-> 0, content |-> 0]

\* line 114: the value of the promise of generateIcoBlob(img) once it is
\* fulfilled, built by lines 219-257 from the results of pngPromises (which
\* no longer change once they are all fulfilled)
icoBlob ==
    IF icoSt = "fulfilled"
    THEN IcoFile(imageEntries(SelectSizes(img.w, img.h), enBuf))
    ELSE <<>>

Init ==
    /\ status = "idle"
    /\ error = NULL
    /\ zipBlobUrl = NULL
    /\ pngFile = NoFile
    /\ pc = "idle"
    /\ img = NoImage
    /\ icoSt = "none"
    /\ icoErr = NULL
    /\ enSt = [s \in IcoSizes |-> "none"]
    /\ enBuf = [s \in IcoSizes |-> <<>>]
    /\ png = [s \in PngSizes |-> "none"]
    /\ mf = "none"
    /\ zip = "none"
    /\ resampled = {}
    /\ lastType = "none"
    /\ firstFail = NULL
    /\ firstReject = NULL

----------------------------------------------------------------------------
(* handleConvert *)

\* line 138: e.message || "An unknown error occurred during conversion."
Message(e) == IF e = "" THEN ErrUnknown ELSE e

\* lines 137-140: the catch block
Catch(e) ==
    /\ error' = Message(e)
    /\ status' = "error"
    /\ pc' = "done"
    /\ UNCHANGED zipBlobUrl

AllFulfilled(i, p, m) ==
    /\ i = "fulfilled"
    /\ \A s \in PngSizes : p[s] = "fulfilled"
    /\ m \in {"ok", "notok"}

\* mutant: a later rejection overwrites the outcome of the run
JoinLast(i, p, m, rej) ==
    IF rej # NULL THEN Catch(rej)
    ELSE IF pc # "all" THEN UNCHANGED <<pc, status, error, zipBlobUrl>>
    ELSE IF AllFulfilled(i, p, m)
         THEN IF m = "notok" THEN Catch(ErrManifestNotOk)
              ELSE pc' = "blob" /\ UNCHANGED <<status, error, zipBlobUrl>>
    ELSE UNCHANGED <<pc, status, error, zipBlobUrl>>

\* mutant: manifestResponse.ok is not checked
JoinNoOkCheck(i, p, m, rej) ==
    IF pc # "all" THEN UNCHANGED <<pc, status, error, zipBlobUrl>>
    ELSE IF rej # NULL THEN Catch(rej)
    ELSE IF AllFulfilled(i, p, m)
         THEN pc' = "blob" /\ UNCHANGED <<status, error, zipBlobUrl>>
    ELSE UNCHANGED <<pc, status, error, zipBlobUrl>>

\* lines 114-124: what the await of Promise.all does in the task in which a
\* production promise settles; rej is the reason of the promise rejected in
\* this task (NULL if none), i, p, m the new states of the four promises
Join(i, p, m, rej) ==
    IF pc # "all" THEN UNCHANGED <<pc, status, error, zipBlobUrl>>
    ELSE IF rej # NULL THEN Catch(rej)
    ELSE IF AllFulfilled(i, p, m)
         THEN IF m = "notok" THEN Catch(ErrManifestNotOk)
              ELSE pc' = "blob" /\ UNCHANGED <<status, error, zipBlobUrl>>
    ELSE UNCHANGED <<pc, status, error, zipBlobUrl>>

\* history of the failures of the production steps of the run
Record(fail, rej) ==
    /\ firstFail' = IF firstFail = NULL THEN fail ELSE firstFail
    /\ firstReject' = IF firstReject = NULL THEN rej ELSE firstReject
    /\ UNCHANGED lastType

----------------------------------------------------------------------------
(* handleFileSelect *)

ResetRun ==
    /\ img' = NoImage
    /\ icoSt' = "none"
    /\ icoErr' = NULL
    /\ enSt' = [s \in IcoSizes |-> "none"]
    /\ enBuf' = [s \in IcoSizes |-> <<>>]
    /\ png' = [s \in PngSizes |-> "none"]
    /\ mf' = "none"
    /\ zip' = "none"
    /\ resampled' = {}
    /\ firstFail' = NULL
    /\ firstReject' = NULL

\* mutant: the archive of the previous run is kept
CleanUpKeepZip == UNCHANGED zipBlobUrl

\* lines 145-147
CleanUp == zipBlobUrl' = NULL

\* mutant: every image type is accepted
ValidTypeImage(file) == file.type \in {"image/png", "image/jpeg"}

\* line 150
ValidType(file) == file.type = PNG

\* lines 143-159 and 108-112 up to the first await; FileUpload is disabled
\* while status is 'converting' (lines 56, 84, 273)
handleFileSelect(file) ==
    /\ status # "converting"
    /\ lastType' = file.type
    /\ CleanUp
    /\ IF ~ValidType(file)
       THEN /\ error' = ErrInvalidType
            /\ status' = "error"
            /\ pngFile' = NoFile
            /\ UNCHANGED pc
            /\ ResetRun
       ELSE /\ pngFile' = file
            /\ status' = "converting"
            /\ error' = NULL
            /\ pc' = "reading"
            /\ ResetRun

SelectFile == \E file \in Files : handleFileSelect(file)

----------------------------------------------------------------------------
(* loadImage *)

\* lines 167-168: reader.onload with a string result sets img.src
ReaderOnload ==
    /\ pc = "reading"
    /\ pc' = "decoding"
    /\ UNCHANGED <<status, error, zipBlobUrl, pngFile>>
    /\ UNCHANGED stepVars
    /\ UNCHANGED histVars

\* lines 169, 171: reader.onload with a non-string result, reader.onerror
ReaderFail ==
    /\ pc = "reading"
    /\ \E e \in {ErrReadData, ErrReadFile} : Catch(e)
    /\ UNCHANGED pngFile
    /\ UNCHANGED stepVars
    /\ UNCHANGED histVars

\* line 166: img.onerror
ImgOnerror ==
    /\ pc = "decoding"
    /\ Catch(ErrLoadImage)
    /\ UNCHANGED pngFile
    /\ UNCHANGED stepVars
    /\ UNCHANGED histVars

----------------------------------------------------------------------------
(* img.onload: loadImage resolves and handleConvert runs lines 114-119:    *)
(* the synchronous parts of generateIcoBlob(img), generatePngBlob(img,192),*)
(* generatePngBlob(img,512) and fetch, then Promise.all                     *)

\* mutant: the minimum size is not checked before the sizes are selected
IcoSyncErrorNoMin(w, h) ==
    IF Len(SelectSizes(w, h)) = 0 THEN ErrNoSizes ELSE NULL

\* lines 196-205: the reason generateIcoBlob throws before its first await
IcoSyncError(w, h) ==
    IF TooSmall(w, h) THEN ErrTooSmall
    ELSE IF Len(SelectSizes(w, h)) = 0 THEN ErrNoSizes
    ELSE NULL

\* the canvases generateIcoBlob creates (line 207-210)
IcoCanvases(w, h) ==
    IF IcoSyncError(w, h) # NULL THEN {} ELSE Range(SelectSizes(w, h))

\* noctx: the canvases whose getContext('2d') returns null (line 182)
StartProduction(image, noctx) ==
    LET syncErr == IcoSyncError(image.w, image.h)
        icoCv == IcoCanvases(image.w, image.h)
        icoRej == IF syncErr # NULL THEN syncErr
                  ELSE IF icoCv \cap noctx # {} THEN ErrNoContext
                  ELSE NULL
        \* reactions of Promise.all run in the order in which the promises
        \* were rejected: the already rejected ones in array order, the
        \* rejection of a per-size promise reaches generateIcoBlob's
        \* promise several microtasks later
        rej == IF syncErr # NULL THEN syncErr
               ELSE IF PngSizes \cap noctx # {} THEN ErrNoContext
               ELSE icoRej
        newIco == IF icoRej # NULL THEN "rejected" ELSE "pending"
        newPng == [s \in PngSizes |->
                     IF s \in noctx THEN "rejected" ELSE "pending"]
    IN  /\ img' = image
        /\ icoSt' = newIco
        /\ icoErr' = icoRej
                /\ enSt' = [s \in IcoSizes |->
                      IF s \notin icoCv THEN "none"
                      ELSE IF s \in noctx THEN "rejected" ELSE "pending"]
        /\ enBuf' = [s \in IcoSizes |-> <<>>]
        /\ png' = newPng
        /\ mf' = "pending"
        /\ zip' = "none"
        /\ resampled' = (icoCv \cup PngSizes) \ noctx
        /\ Record(rej, rej)
        /\ IF rej # NULL THEN Catch(rej)
           ELSE pc' = "all" /\ UNCHANGED <<status, error, zipBlobUrl>>
        /\ UNCHANGED pngFile

ImgOnload ==
    /\ pc = "decoding"
    /\ \E noctx \in SUBSET Canvases :
         /\ noctx \subseteq IcoCanvases(pngFile.w, pngFile.h) \cup PngSizes
         /\ Cardinality(noctx) <= MaxCtxFail
         /\ StartProduction([w |-> pngFile.w, h |-> pngFile.h,
                             content |-> pngFile.content], noctx)

----------------------------------------------------------------------------
(* completions of the per-size promises of generateIcoBlob *)

\* lines 188-190, 210-212, 219; when the last one resolves, generateIcoBlob
\* builds the container (icoBlob) and its promise is fulfilled
EncodeDone(size) ==
    /\ icoSt = "pending"
    /\ enSt[size] = "pending"
    /\ LET newSt == [enSt EXCEPT ![size] = "fulfilled"]
           newBuf == [enBuf EXCEPT ![size] = EncodedPng(img.content, size)]
           sizes == SelectSizes(img.w, img.h)
           done == \A s \in Range(sizes) : newSt[s] = "fulfilled"
           newIco == IF done THEN "fulfilled" ELSE icoSt
       IN  /\ enSt' = newSt
           /\ enBuf' = newBuf
           /\ icoSt' = newIco
           /\ Join(newIco, png, mf, NULL)
    /\ UNCHANGED <<pngFile, img, icoErr, png, mf, zip, resampled>>
    /\ UNCHANGED histVars

\* lines 189, 213-214, 219
EncodeFail(size) ==
    /\ icoSt = "pending"
    /\ enSt[size] = "pending"
    /\ enSt' = [enSt EXCEPT ![size] = "rejected"]
    /\ icoSt' = "rejected"
    /\ icoErr' = ErrBlob(size)
    /\ Join(icoSt', png, mf, ErrBlob(size))
    /\ Record(ErrBlob(size), ErrBlob(size))
    /\ UNCHANGED <<pngFile, img, enBuf, png, mf, zip, resampled>>

IcoEncode == \E size \in IcoSizes : EncodeDone(size) \/ EncodeFail(size)

----------------------------------------------------------------------------
(* completions of generatePngBlob(img, 192) and generatePngBlob(img, 512) *)

\* lines 188-190
PngDone(size) ==
    /\ png[size] = "pending"
    /\ png' = [png EXCEPT ![size] = "fulfilled"]
    /\ Join(icoSt, png', mf, NULL)
    /\ UNCHANGED <<pngFile, img, icoSt, icoErr, enSt, enBuf, mf,
                   zip, resampled>>
    /\ UNCHANGED histVars

\* mutant: a null blob is ignored and the promise never settles
PngFailSilent(size) ==
    /\ png[size] = "pending"
    /\ png' = [png EXCEPT ![size] = "lost"]
    /\ UNCHANGED <<pc, status, error, zipBlobUrl>>
    /\ UNCHANGED <<pngFile, img, icoSt, icoErr, enSt, enBuf, mf,
                   zip, resampled>>
    /\ UNCHANGED histVars

\* line 189
PngFail(size) ==
    /\ png[size] = "pending"
    /\ png' = [png EXCEPT ![size] = "rejected"]
    /\ Join(icoSt, png', mf, ErrBlob(size))
    /\ Record(ErrBlob(size), ErrBlob(size))
    /\ UNCHANGED <<pngFile, img, icoSt, icoErr, enSt, enBuf, mf,
                   zip, resampled>>

PngEncode == \E size \in PngSizes : PngDone(size) \/ PngFail(size)

----------------------------------------------------------------------------
(* completions of fetch('manifest.json') *)

\* line 118: the response arrives; ok is manifestResponse.ok
FetchResponse(ok) ==
    /\ mf = "pending"
    /\ mf' = IF ok THEN "ok" ELSE "notok"
    /\ Join(icoSt, png, mf', NULL)
    /\ Record(IF ok THEN NULL ELSE ErrManifestNotOk, NULL)
    /\ UNCHANGED <<pngFile, img, icoSt, icoErr, enSt, enBuf, png,
                   zip, resampled>>

\* line 118: the fetch promise rejects (network error)
FetchReject ==
    /\ mf = "pending"
    /\ mf' = "rejected"
    /\ Join(icoSt, png, mf', ErrFetchRejected)
    /\ Record(ErrFetchRejected, ErrFetchRejected)
    /\ UNCHANGED <<pngFile, img, icoSt, icoErr, enSt, enBuf, png,
                   zip, resampled>>

Fetch == FetchReject \/ \E ok \in BOOLEAN : FetchResponse(ok)

----------------------------------------------------------------------------
(* packaging *)

\* lines 124-132: manifestResponse.blob() resolves, the four files are
\* added and zip.generateAsync is started
ManifestBlobDone ==
    /\ pc = "blob"
    /\ pc' = "zip"
    /\ mf' = "read"
    /\ zip' = "pending"
    /\ UNCHANGED <<status, error, zipBlobUrl, pngFile>>
    /\ UNCHANGED <<img, icoSt, icoErr, enSt, enBuf, png, resampled>>
    /\ UNCHANGED histVars

\* line 124: manifestResponse.blob() rejects
ManifestBlobFail ==
    /\ pc = "blob"
    /\ mf' = "bodyfailed"
    /\ Catch(ErrManifestBody)
    /\ UNCHANGED <<pngFile, img, icoSt, icoErr, enSt, enBuf, png, zip,
                   resampled>>
    /\ UNCHANGED histVars

\* lines 132-136
ZipDone ==
    /\ pc = "zip"
    /\ zipBlobUrl' = "blob:icons.zip"
    /\ status' = "success"
    /\ pc' = "done"
    /\ zip' = "fulfilled"
    /\ UNCHANGED <<error, pngFile>>
    /\ UNCHANGED <<img, icoSt, icoErr, enSt, enBuf, png, mf, resampled>>
    /\ UNCHANGED histVars

\* line 132: zip.generateAsync rejects
ZipFail ==
    /\ pc = "zip"
    /\ Catch(ErrZip)
    /\ zip' = "rejected"
    /\ UNCHANGED <<pngFile, img, icoSt, icoErr, enSt, enBuf, png, mf,
                   resampled>>
    /\ UNCHANGED histVars

----------------------------------------------------------------------------
Completion ==
    \/ ReaderOnload \/ ReaderFail \/ ImgOnload \/ ImgOnerror
    \/ IcoEncode \/ PngEncode \/ Fetch
    \/ ManifestBlobDone \/ ManifestBlobFail \/ ZipDone \/ ZipFail

Next ==
    \/ SelectFile
    \/ ReaderOnload
    \/ ReaderFail
    \/ ImgOnload
    \/ ImgOnerror
    \/ IcoEncode
    \/ PngEncode
    \/ Fetch
    \/ ManifestBlobDone
    \/ ManifestBlobFail
    \/ ZipDone
    \/ ZipFail

Spec == Init /\ [][Next]_vars

\* every started collaborator operation eventually completes or fails
FairSpec == Spec /\ WF_vars(Completion)
----------------------------------------------------------------------------
(* Reading a container back *)

getUint8(buf, off) == buf[off + 1]
getUint16(buf, off) == buf[off + 1] + 256 * buf[off + 2]
getUint32(buf, off) ==
    buf[off + 1] + 256 * buf[off + 2] + 65536 * buf[off + 3]
    + 16777216 * buf[off + 4]

ParsedCount(buf) == getUint16(buf, 4)

\* directory entry i (from 0)
ParsedEntry(buf, i) ==
    [width |-> getUint8(buf, 6 + 16 * i),
     height |-> getUint8(buf, 6 + 16 * i + 1),
     dataSize |-> getUint32(buf, 6 + 16 * i + 8),
     dataOffset |-> getUint32(buf, 6 + 16 * i + 12)]

\* a width or height byte of 0 reads as 256
ParsedDim(b) == IF b = 0 THEN 256 ELSE b

Slice(buf, off, n) == SubSeq(buf, off + 1, off + n)

RECURSIVE SumDataSize(_, _)
SumDataSize(buf, i) ==
    IF i >= ParsedCount(buf) THEN 0
    ELSE ParsedEntry(buf, i).dataSize + SumDataSize(buf, i + 1)

Candidates == <<256, 128, 64, 48, 32, 16>>
Eligible(w, h) == {c \in Range(Candidates) : c <= w /\ c <= h}
EligibleDescending(w, h) ==
    SelectSeq(Candidates, LAMBDA c : c \in Eligible(w, h))

Decoded == img # NoImage
SourceTooSmall == Decoded /\ (img.w < 16 \/ img.h < 16)
SourceLargeEnough == Decoded /\ img.w >= 16 /\ img.h >= 16
IcoProduced == icoSt = "fulfilled"
PngsProduced == \A s \in PngSizes : png[s] = "fulfilled"

----------------------------------------------------------------------------
(* Claims *)

\* C1: for a source with w >= 16 and h >= 16 the imageCount field of the
\* container is the number of candidates that fit both dimensions (between 1
\* and 6), and the 'no eligible sizes' failure is never reached
C1_ImageCount ==
    SourceLargeEnough =>
        /\ icoErr # ErrNoSizes
        /\ error # ErrNoSizes
        /\ IcoProduced =>
             /\ ParsedCount(icoBlob) = Cardinality(Eligible(img.w, img.h))
             /\ ParsedCount(icoBlob) \in 1..6

C1_Witness ==
    /\ IcoProduced
    /\ img.w = 256
    /\ img.h = 48
    /\ ParsedCount(icoBlob) = 3

\* C2: for a source narrower or shorter than 16 the run ends in the error
\* state with the ImageTooSmall message, and neither a container nor an
\* archive is produced, whatever the other three steps do
C2_TooSmallFails ==
    SourceTooSmall =>
        /\ status = "error"
        /\ error = ErrTooSmall
        /\ icoSt = "rejected"
            /\ zip = "none"
        /\ zipBlobUrl = NULL

C2_Witness ==
    /\ img.w = 15
    /\ img.h = 256
    /\ status = "error"
    /\ png[192] = "fulfilled"
    /\ png[512] = "rejected"
    /\ mf = "ok"

\* C3: an archive URL is exposed only when the four production steps and the
\* packaging of the current run have succeeded; none is exposed in the
\* converting and error states
C3_NoPartialArtifacts ==
    /\ zipBlobUrl # NULL =>
         /\ status = "success"
         /\ IcoProduced
         /\ PngsProduced
         /\ mf = "read"
         /\ zip = "fulfilled"
    /\ status \in {"converting", "error"} => zipBlobUrl = NULL

C3_Witness ==
    /\ zipBlobUrl = "blob:icons.zip"
    /\ zip = "fulfilled"
    /\ Len(icoBlob) > 0

\* C4 as stated: the error of a failed run is the error of the production
\* step that failed first, a non-success response of the descriptor fetch
\* counting as a failure of that step
C4_FirstFailureWins ==
    (status = "error" /\ firstFail # NULL) => error = firstFail

\* C4 amended: a run in which a production step fails never succeeds; its
\* error is the reason of the first rejected production promise, and the
\* non-success response of the descriptor fetch is the error only when no
\* promise was rejected and the other three steps succeeded
C4_FirstRejectionWins ==
    /\ firstFail # NULL => status # "success" /\ zipBlobUrl = NULL
    /\ (status = "error" /\ firstReject # NULL) => error = firstReject
    /\ (status = "error" /\ firstReject = NULL /\ firstFail # NULL) =>
         /\ error = ErrManifestNotOk
         /\ IcoProduced
         /\ PngsProduced

C4_Witness ==
    /\ status = "error"
    /\ mf = "rejected"
    /\ png[192] = "rejected"
    /\ firstReject = ErrFetchRejected
    /\ error = ErrFetchRejected

\* C5: when the descriptor retrieval fails or answers with a non-success
\* response while the container and both PNGs are produced, the run is in the
\* error state with the error of the descriptor retrieval, packaging was not
\* started and no archive exists
C5_DescriptorFailure ==
    (IcoProduced /\ PngsProduced /\ mf \in {"notok", "rejected", "bodyfailed"})
    =>
        /\ status = "error"
        /\ error = (CASE mf = "notok" -> ErrManifestNotOk
                      [] mf = "rejected" -> ErrFetchRejected
                      [] mf = "bodyfailed" -> ErrManifestBody)
        /\ zip = "none"
        /\ zipBlobUrl = NULL

C5_Witness ==
    /\ IcoProduced
    /\ PngsProduced
    /\ mf = "notok"
    /\ error = ErrManifestNotOk

\* C6 as stated: for a source smaller than 16 in either dimension no resample
\* (no icon variant, no 192 or 512 variant) is performed in the run
C6_NoResampleAtAll == SourceTooSmall => resampled = {}

\* C6 amended: for a source smaller than 16 in either dimension the run
\* fails with ImageTooSmall and no icon variant is resampled; the 192 and 512
\* variants are the only resamples of the run
C6_NoIconResample ==
    SourceTooSmall =>
        /\ error = ErrTooSmall
        /\ resampled \cap IcoSizes = {}
        /\ \A s \in IcoSizes : enSt[s] = "none"
        /\ resampled \subseteq PngSizes

C6_Witness ==
    /\ img.w = 15
    /\ img.h = 15
    /\ error = ErrTooSmall
    /\ resampled = {192, 512}

\* C7: parsing a produced container, a size byte of 0 read as 256, recovers
\* the selected sizes in descending order, with equal width and height
\* bytes, and each entry's [dataOffset, dataOffset + dataSize) slice is the
\* encoded image of that size
C7_RoundTrip ==
    IcoProduced =>
        LET sizes == EligibleDescending(img.w, img.h)
        IN  /\ ParsedCount(icoBlob) = Len(sizes)
            /\ \A i \in 1..Len(sizes) :
                 LET e == ParsedEntry(icoBlob, i - 1)
                 IN  /\ e.width = e.height
                     /\ ParsedDim(e.width) = sizes[i]
                     /\ e.dataOffset + e.dataSize <= Len(icoBlob)
                     /\ Slice(icoBlob, e.dataOffset, e.dataSize)
                          = enBuf[sizes[i]]
                     /\ enBuf[sizes[i]] = EncodedPng(img.content, sizes[i])

C7_Witness ==
    /\ IcoProduced
    /\ img.w = 256
    /\ img.h = 256
    /\ ParsedCount(icoBlob) = 6
    /\ ParsedEntry(icoBlob, 0).width = 0
    /\ ParsedEntry(icoBlob, 5).width = 16

\* C8: the data regions of a produced container tile the file: the first
\* starts at 6 + 16 * imageCount, each next one where the previous ends, and
\* the last ends at the end of the buffer, whose length is
\* 6 + 16 * imageCount + the sum of the data sizes
C8_Tiling ==
    IcoProduced =>
        LET n == ParsedCount(icoBlob)
        IN  /\ n >= 1
            /\ ParsedEntry(icoBlob, 0).dataOffset = 6 + 16 * n
            /\ \A i \in 0..(n - 2) :
                 ParsedEntry(icoBlob, i + 1).dataOffset
                   = ParsedEntry(icoBlob, i).dataOffset
                     + ParsedEntry(icoBlob, i).dataSize
            /\ ParsedEntry(icoBlob, n - 1).dataOffset
                 + ParsedEntry(icoBlob, n - 1).dataSize = Len(icoBlob)
            /\ Len(icoBlob) = 6 + 16 * n + SumDataSize(icoBlob, 0)

C8_Witness ==
    /\ IcoProduced
    /\ img.w = 48
    /\ img.h = 256
    /\ ParsedEntry(icoBlob, 2).dataOffset
         > ParsedEntry(icoBlob, 1).dataOffset + 1

\* C9: a file whose type is not PNG puts the component in the error state
\* with the invalid-file-type message; the converting state is not entered,
\* no read, decode, resample, encode or fetch is started, and neither an
\* archive nor a selected file is retained
C9_InvalidTypeRejected ==
    lastType \notin {"none", PNG} =>
        /\ status = "error"
        /\ error = ErrInvalidType
        /\ pngFile = NoFile
        /\ zipBlobUrl = NULL
        /\ pc \in {"idle", "done"}
        /\ ~Decoded
        /\ resampled = {}
        /\ icoSt = "none"
        /\ \A s \in IcoSizes : enSt[s] = "none"
        /\ \A s \in PngSizes : png[s] = "none"
        /\ mf = "none"
        /\ zip = "none"

C9_Witness ==
    /\ lastType = "image/jpeg"
    /\ status = "error"
    /\ error = ErrInvalidType
    /\ pc = "done"

\* C10: when every started collaborator operation completes or fails, a run
\* in the converting state reaches success or error, and the status never
\* goes from converting back to idle
C10_RunTerminates ==
    /\ (status = "converting") ~> (status \in {"success", "error"})
    /\ [][status = "converting" => status' # "idle"]_vars

C10_Witness ==
    /\ status = "success"
    /\ pc = "done"
    /\ lastType = PNG
    /\ img.w = 16

====
